---- MODULE Spec2Model ----
(***************************************************************************)
(* A state-machine model of pylib/anki/scheduler.py (class Scheduler): the *)
(* queue scheduler that hands out cards from four lazily filled buffers    *)
(* (new, short-term learning, day learning, review) and reacts to answers. *)
(*                                                                         *)
(* The collection (card store, deck tree, configuration, clock) is the     *)
(* environment.  The scheduler's own fields are the record `self`.         *)
(***************************************************************************)
EXTENDS Integers, Sequences, FiniteSets, TLC

VARIABLES
    self,    \* the Scheduler object's fields, and three observations:
             \* queried, the decks whose new cards the current call asked the
             \* store for; handed, the cards handed out since the last
             \* reset(); requeued, those of them that answerCard pushed back
             \* into the learning buffer and that were not popped since; log,
             \* what the current call re-derived and which fillers it ran;
             \* scanAt, the time of the last unforced learning rescan
    cards,   \* col.db cards table: id -> [did, nid, ord, queue, due]
    decks,   \* col.decks: did -> [parent, dyn, newPerDay, revPerDay, newToday, revToday, buryNew, buryRev]
    conf,    \* col.conf: [curDeck, newSpread, dayLearnFirst, collapseTime], and
             \* drift: how many cards the deck tree counts of each kind that
             \* the store no longer yields (another actor buried them since)
    now,     \* the wall clock (time.time() / intTime()), in seconds
    ticks,   \* how many times the clock has advanced
    cur,     \* the card handed out by getCard and not answered yet (0: none)
    last     \* what the last call did (observation only, never read by the code)

vars == <<self, cards, decks, conf, now, ticks, cur, last>>

----------------------------------------------------------------------------
(* Program constants *)

QUEUE_TYPE_NEW == 0
QUEUE_TYPE_LRN == 1
QUEUE_TYPE_REV == 2
QUEUE_TYPE_DAY_LEARN_RELEARN == 3
QUEUE_TYPE_PREVIEW == 4
QUEUE_TYPE_SUSPENDED == -1
QUEUE_TYPE_SIBLING_BURIED == -2

NEW_CARDS_DISTRIBUTE == 0
NEW_CARDS_LAST == 1
NEW_CARDS_FIRST == 2

queueLimit == 50
reportLimit == 1000
dynReportLimit == 99999
LrnRescanSecs == 60

\* seconds in a day, as used by the backend's sched_timing_today
DaySecs == 86400
\* the default col.conf["collapseTime"]: 20 minutes
DefaultCollapse == 1200

----------------------------------------------------------------------------
(* Bounds of the model *)

\* seconds by which one Tick advances the clock
TickSecs == 61
\* number of clock advances in a behaviour
MaxTicks == 2
\* new and review cards of the store of the interleaving run
RunNew == 10
RunRev == 5
\* largest per-day cap of new cards in the deck tables of the limit
\* specification
MaxCap == 2
\* cap on self.reps (cards handed out) in a behaviour
MaxReps == 3
\* cards the deck tree over-counts in the drift specification
MaxDrift == 1
\* delay of a learning step the decision engine may schedule
StepSecs == 30

----------------------------------------------------------------------------
(* Sequences *)

Min(a, b) == IF a < b THEN a ELSE b
Max(a, b) == IF a > b THEN a ELSE b

Range(s) == {s[i] : i \in DOMAIN s}

\* list.reverse()
Reverse(s) == [i \in 1..Len(s) |-> s[Len(s) + 1 - i]]

\* SQL "limit n" / a slice s[:n]
Take(s, n) == IF Len(s) <= n THEN s ELSE SubSeq(s, 1, n)

\* list.remove(x): drops the first occurrence, ValueError (swallowed) if absent
RECURSIVE Remove(_, _)
Remove(s, x) ==
    IF s = <<>> THEN <<>>
    ELSE IF Head(s) = x THEN Tail(s)
    ELSE <<Head(s)>> \o Remove(Tail(s), x)

\* lexicographic order on (due, id) pairs, as Python compares tuples
PairLess(a, b) == a[1] < b[1] \/ (a[1] = b[1] /\ a[2] < b[2])

\* the elements of a finite set of pairs in ascending order (list.sort())
RECURSIVE SortPairs(_)
SortPairs(S) ==
    IF S = {} THEN <<>>
    ELSE LET m == CHOOSE x \in S : \A y \in S : x = y \/ PairLess(x, y)
         IN  <<m>> \o SortPairs(S \ {m})

\* heappush onto a queue kept in ascending order: the heap's layout is
\* abstracted, its pop order (ascending) is kept
RECURSIVE InsertPair(_, _)
InsertPair(s, p) ==
    IF s = <<>> THEN <<p>>
    ELSE IF PairLess(p, Head(s)) THEN <<p>> \o s
    ELSE <<Head(s)>> \o InsertPair(Tail(s), p)

\* the elements of a finite set of ids in ascending order
RECURSIVE SortIds(_)
SortIds(S) ==
    IF S = {} THEN <<>>
    ELSE LET m == CHOOSE x \in S : \A y \in S : x <= y
         IN  <<m>> \o SortIds(S \ {m})

\* all orderings of a finite set
RECURSIVE Perms(_)
Perms(S) ==
    IF S = {} THEN {<<>>}
    ELSE UNION {{<<x>> \o p : p \in Perms(S \ {x})} : x \in S}

----------------------------------------------------------------------------
(* Deck manager (col.decks) *)

DeckIds == DOMAIN decks

\* col.decks.parents(did): the ancestors of a deck
RECURSIVE Parents(_)
Parents(did) ==
    IF did \notin DeckIds \/ decks[did].parent = 0 THEN <<>>
    ELSE Parents(decks[did].parent) \o <<decks[did].parent>>

\* col.decks.active(): the selected deck and its descendants
ActiveSeq == SortIds({d \in DeckIds : d = conf.curDeck \/ conf.curDeck \in Range(Parents(d))})
Active == Range(ActiveSeq)

----------------------------------------------------------------------------
(* Deck limits *)

\* _deckNewLimitSingle
DeckNewLimitSingle(g) ==
    IF decks[g].dyn THEN dynReportLimit
    ELSE Max(0, decks[g].newPerDay - decks[g].newToday)

RECURSIVE NewLimitLoop(_, _)
NewLimitLoop(gs, lim) ==
    IF gs = <<>> THEN lim
    ELSE LET rem == DeckNewLimitSingle(Head(gs))
         IN  NewLimitLoop(Tail(gs), IF lim = -1 THEN rem ELSE Min(rem, lim))

\* variant: the deck's own limit, its ancestors not consulted
DeckNewLimitOwn(did) == DeckNewLimitSingle(did)

\* _deckNewLimit with the default fn
DeckNewLimit(did) == NewLimitLoop(<<did>> \o Parents(did), -1)

RECURSIVE RevLimitParents(_, _)
\* _deckRevLimitSingle: d = 0 stands for the missing deck (default=False)
DeckRevLimitSingle(d, hasParentLimit, parentLimit) ==
    IF d \notin DeckIds THEN 0
    ELSE IF decks[d].dyn THEN dynReportLimit
    ELSE LET lim == Max(0, decks[d].revPerDay - decks[d].revToday)
         IN  IF hasParentLimit THEN Min(parentLimit, lim)
             ELSE IF decks[d].parent # 0 THEN RevLimitParents(Parents(d), lim)
             ELSE lim

\* the loop over the parents of _deckRevLimitSingle, each called with a
\* dummy parentLimit
RevLimitParents(ps, lim) ==
    IF ps = <<>> THEN lim
    ELSE LET p == Head(ps)
             pl == IF decks[p].dyn THEN dynReportLimit
                   ELSE Min(lim, Max(0, decks[p].revPerDay - decks[p].revToday))
         IN  RevLimitParents(Tail(ps), Min(lim, pl))

\* _currentRevLimit
CurrentRevLimit == DeckRevLimitSingle(conf.curDeck, FALSE, 0)

----------------------------------------------------------------------------
(* Card store queries (col.db) *)

CardIds == DOMAIN cards

\* new cards of one deck
NewInDeck(did) ==
    {c \in CardIds : cards[c].did = did /\ cards[c].queue = QUEUE_TYPE_NEW}

\* ascending (due, ord, id) order of a set of cards: "order by due, ord"
RECURSIVE SortByDueOrd(_)
SortByDueOrd(S) ==
    IF S = {} THEN <<>>
    ELSE LET key(c) == <<cards[c].due, cards[c].ord, c>>
             less(a, b) ==
                 \/ key(a)[1] < key(b)[1]
                 \/ key(a)[1] = key(b)[1] /\ key(a)[2] < key(b)[2]
                 \/ key(a)[1] = key(b)[1] /\ key(a)[2] = key(b)[2] /\ a < b
             m == CHOOSE x \in S : \A y \in S : x = y \/ less(x, y)
         IN  <<m>> \o SortByDueOrd(S \ {m})

\* variant: the rows come in the order of their ids
NewQueryById(did, lim) == Take(SortIds(NewInDeck(did)), lim)

\* the query of _fillNew
NewQuery(did, lim) == Take(SortByDueOrd(NewInDeck(did)), lim)

\* the query of _fillLrn: (due, id) rows of active decks, sorted afterwards
LrnRows(cutoff) ==
    {<<cards[c].due, c>> : c \in
        {x \in CardIds : /\ cards[x].did \in Active
                         /\ cards[x].queue \in {QUEUE_TYPE_LRN, QUEUE_TYPE_PREVIEW}
                         /\ cards[x].due < cutoff}}

\* day learning cards of one deck due by today
LrnDayInDeck(did, today) ==
    {c \in CardIds : /\ cards[c].did = did
                     /\ cards[c].queue = QUEUE_TYPE_DAY_LEARN_RELEARN
                     /\ cards[c].due <= today}

\* review cards of the active decks due by today
RevDue(today) ==
    {c \in CardIds : /\ cards[c].did \in Active
                     /\ cards[c].queue = QUEUE_TYPE_REV
                     /\ cards[c].due <= today}

\* whether a sequence of ids is in ascending due order
DueOrdered(p) == \A i, j \in DOMAIN p : i < j => cards[p[i]].due <= cards[p[j]].due

\* variant: "order by random()", the due left out of the ordering
RevOrdersAnyOrder(today) == Perms(RevDue(today))

\* the possible results of "order by due, random()": ties in any order
RevOrders(today) == {p \in Perms(RevDue(today)) : DueOrdered(p)}

\* random.Random(seed).shuffle(list): a permutation fixed by the seed and the
\* length, here the rotation by seed
Shuffle(seed, s) ==
    IF s = <<>> THEN s
    ELSE [i \in 1..Len(s) |-> s[((i - 1 + seed) % Len(s)) + 1]]

\* the three counts of _resetLrnCount
LrnCountQuery(lrnCutoff, today) ==
    Cardinality({c \in CardIds : /\ cards[c].did \in Active
                                 /\ cards[c].queue = QUEUE_TYPE_LRN
                                 /\ cards[c].due < lrnCutoff})
    + Cardinality({c \in CardIds : /\ cards[c].did \in Active
                                   /\ cards[c].queue = QUEUE_TYPE_DAY_LEARN_RELEARN
                                   /\ cards[c].due <= today})
    + Cardinality({c \in CardIds : /\ cards[c].did \in Active
                                   /\ cards[c].queue = QUEUE_TYPE_PREVIEW})

----------------------------------------------------------------------------
(* Backend: day timing and the deck tree's counts *)

\* sched_timing_today(): days_elapsed and next_day_at
DaysElapsed == now \div DaySecs
NextDayAt == (now \div DaySecs + 1) * DaySecs

\* _newForDeck
NewForDeck(did, lim) ==
    IF lim = 0 THEN 0
    ELSE Min(Cardinality(NewInDeck(did)), Min(lim, reportLimit))

\* the new count of the selected deck's node: each active deck's new cards
\* within its own limit and within what its ancestors have left
RECURSIVE WalkingNew(_, _, _)
WalkingNew(dids, pc, tot) ==
    IF dids = <<>> THEN tot
    ELSE LET did == Head(dids)
             ps  == Range(Parents(did))
             pc1 == [d \in DeckIds |->
                        IF d \in ps /\ pc[d] = -1 THEN DeckNewLimitSingle(d) ELSE pc[d]]
             own == DeckNewLimitSingle(did)
             lim == IF ps = {} THEN own
                    ELSE Min(own, CHOOSE m \in {pc1[p] : p \in ps} :
                                      \A p \in ps : m <= pc1[p])
             cnt == NewForDeck(did, lim)
             pc2 == [d \in DeckIds |->
                        IF d \in ps THEN pc1[d] - cnt
                        ELSE IF d = did THEN lim - cnt
                        ELSE pc1[d]]
         IN  IF own = 0 THEN WalkingNew(Tail(dids), pc, tot)
             ELSE WalkingNew(Tail(dids), pc2, tot + cnt)

TreeNewCount == WalkingNew(ActiveSeq, [d \in DeckIds |-> -1], 0) + conf.drift

\* _revForDeck for the selected deck and its children
RevForDeck(lim, today) == Min(Cardinality(RevDue(today)), Min(lim, reportLimit))

\* the review count of the selected deck's node
TreeRevCount(today) == RevForDeck(CurrentRevLimit, today) + conf.drift

----------------------------------------------------------------------------
(* The scheduler's methods, as functions of its fields s.  A method that   *)
(* returns a value yields [s |-> the fields afterwards, r |-> the value].  *)
(* A method's later part is an operator of its own, taking what the        *)
(* earlier part computed.                                                  *)

\* Python's // (floor division)
FloorDiv(a, b) == IF b > 0 THEN a \div b ELSE (0 - a) \div (0 - b)

\* the call now running notes the event e
Log(s, e) == [s EXCEPT !.log = Append(@, e)]

\* a call of the application begins: the observations of the previous call
\* are dropped
StartCall(s) == [s EXCEPT !.queried = {}, !.log = <<>>]

\* _updateCutoff
UpdateCutoff(s) == [s EXCEPT !.today = DaysElapsed, !.dayCutoff = NextDayAt]

\* variant: the counts are left as they were when the deck is missing
ResetCountsKeep(s) ==
    IF conf.curDeck \notin DeckIds THEN s
    ELSE [s EXCEPT !.newCount = TreeNewCount, !.revCount = TreeRevCount(s.today)]

\* _reset_counts
ResetCounts(s) ==
    IF conf.curDeck \notin DeckIds
    THEN [s EXCEPT !.newCount = 0, !.revCount = 0]
    ELSE [s EXCEPT !.newCount = TreeNewCount, !.revCount = TreeRevCount(s.today)]

\* variant: the cutoff is moved as soon as it is LrnRescanSecs old
UpdateLrnCutoffEager(s, force) ==
    IF now + conf.collapseTime - s.lrnCutoff >= LrnRescanSecs \/ force
    THEN [s |-> [s EXCEPT !.lrnCutoff = now + conf.collapseTime], r |-> TRUE]
    ELSE [s |-> s, r |-> FALSE]

\* _updateLrnCutoff
UpdateLrnCutoff(s, force) ==
    IF now + conf.collapseTime - s.lrnCutoff > LrnRescanSecs \/ force
    THEN [s |-> [s EXCEPT !.lrnCutoff = now + conf.collapseTime], r |-> TRUE]
    ELSE [s |-> s, r |-> FALSE]

\* _resetLrnCount
ResetLrnCount(s) == [s EXCEPT !.lrnCount = LrnCountQuery(s.lrnCutoff, s.today)]

\* _resetLrn
ResetLrn(s) ==
    [ResetLrnCount(UpdateLrnCutoff(s, TRUE).s)
        EXCEPT !.lrnQueue = <<>>, !.lrnDayQueue = <<>>, !.lrnDids = ActiveSeq]

\* _maybeResetLrn, given what _updateLrnCutoff returned
MaybeResetLrnAfter(u, force) ==
    IF ~u.r THEN u.s
    ELSE IF force THEN ResetLrn(Log(u.s, "lrnForced"))
    ELSE ResetLrn(Log([u.s EXCEPT !.scanAt = now], "lrnScan"))

\* _maybeResetLrn
MaybeResetLrn(s, force) == MaybeResetLrnAfter(UpdateLrnCutoff(s, force), force)

\* _resetRev
ResetRev(s) == [s EXCEPT !.revQueue = <<>>]

\* variant: the modulus is not raised to 2
NewCardModulusRaw(newCount, revCount, m) == m

\* the modulus _updateNewCardRatio sets when there are new cards
NewCardModulus(newCount, revCount, m) == IF revCount # 0 THEN Max(2, m) ELSE m

\* _updateNewCardRatio
UpdateNewCardRatio(s) ==
    IF conf.newSpread = NEW_CARDS_DISTRIBUTE /\ s.newCount # 0
    THEN [s EXCEPT !.newCardModulus =
             NewCardModulus(s.newCount, s.revCount,
                            FloorDiv(s.newCount + s.revCount, s.newCount))]
    ELSE [s EXCEPT !.newCardModulus = 0]

\* _resetNew
ResetNew(s) ==
    UpdateNewCardRatio([s EXCEPT !.newDids = ActiveSeq, !.newQueue = <<>>])

\* variant: the review buffer survives the reset
ResetAllKeepRev(s) ==
    [ResetNew(ResetLrn(ResetCounts(UpdateCutoff(Log(s, "reset")))))
        EXCEPT !.haveQueues = TRUE, !.handed = {}, !.requeued = {}]

\* reset
ResetAll(s) ==
    [ResetNew(ResetRev(ResetLrn(ResetCounts(UpdateCutoff(Log(s, "reset"))))))
        EXCEPT !.haveQueues = TRUE, !.handed = {}, !.requeued = {}]

\* variant: the store is asked whatever the limit
FillNewDeckUnguarded(s, did, lim) ==
    [s |-> [s EXCEPT !.newQueue = Reverse(NewQuery(did, lim)),
                     !.queried = @ \cup {did}],
     r |-> TRUE]

\* one round of the while loop of _fillNew: the deck at the head of
\* self._newDids, its limit lim and (r) whether the store was asked
FillNewDeck(s, did, lim) ==
    IF lim # 0
    THEN [s |-> [s EXCEPT !.newQueue = Reverse(NewQuery(did, lim)),
                          !.queried = @ \cup {did}],
          r |-> TRUE]
    ELSE [s |-> s, r |-> FALSE]

\* the while loop of _fillNew over self._newDids
RECURSIVE FillNewLoop(_)
\* variant: the deck that filled the buffer is dropped too
FillNewNextDrop(f) ==
    IF f.s.newQueue # <<>> THEN [s |-> [f.s EXCEPT !.newDids = Tail(@)], r |-> TRUE]
    ELSE FillNewLoop([f.s EXCEPT !.newDids = Tail(@)])

\* the end of a round of the loop: return with the buffer filled, or drop
\* the deck and go on
FillNewNext(f) ==
    IF f.s.newQueue # <<>> THEN [s |-> f.s, r |-> TRUE]
    ELSE FillNewLoop([f.s EXCEPT !.newDids = Tail(@)])

FillNewLoop(s) ==
    IF s.newDids = <<>> THEN [s |-> s, r |-> FALSE]
    ELSE FillNewNext(FillNewDeck(s, Head(s.newDids),
                                 Min(queueLimit, DeckNewLimit(Head(s.newDids)))))

\* _fillNew
RECURSIVE FillNew(_, _)
\* variant: the retry re-derives once more before it gives up
FillNewAfterTwice(f, recursing) ==
    IF f.r THEN f
    ELSE IF recursing /\ f.s.log[Len(f.s.log) - 1] = "healNew"
    THEN [s |-> Log(f.s, "bugNew"), r |-> FALSE]
    ELSE FillNew(ResetNew(ResetCounts(Log(f.s, "healNew"))), TRUE)

\* _fillNew after its loop returned f; "bug: fillNew()" is printed when the
\* retry found nothing either
FillNewAfter(f, recursing) ==
    IF f.r THEN f
    ELSE IF recursing THEN [s |-> Log(f.s, "bugNew"), r |-> FALSE]
    ELSE FillNew(ResetNew(ResetCounts(Log(f.s, "healNew"))), TRUE)

FillNew(s, recursing) ==
    IF s.newQueue # <<>> THEN [s |-> s, r |-> TRUE]
    ELSE IF s.newCount = 0 THEN [s |-> s, r |-> FALSE]
    ELSE FillNewAfter(FillNewLoop(s), recursing)

\* variant: the card handed out is left in the new buffer
PopNewKeep(f) ==
    IF f.r
    THEN [s |-> [f.s EXCEPT !.newCount = @ - 1],
          r |-> f.s.newQueue[Len(f.s.newQueue)], due |-> 0]
    ELSE [s |-> f.s, r |-> 0, due |-> 0]

\* _getNewCard, given what _fillNew returned (r = 0: None)
PopNew(f) ==
    IF f.r
    THEN [s |-> [f.s EXCEPT !.newCount = @ - 1,
                            !.newQueue = SubSeq(@, 1, Len(@) - 1)],
          r |-> f.s.newQueue[Len(f.s.newQueue)], due |-> 0]
    ELSE [s |-> f.s, r |-> 0, due |-> 0]

\* _getNewCard
GetNewCard(s) == PopNew(FillNew(Log(s, "fillNew"), FALSE))

\* variant: the card about to be handed out is counted in reps
TimeForNewCardNext(s) ==
    IF s.newCount = 0 THEN FALSE
    ELSE IF conf.newSpread = NEW_CARDS_LAST THEN FALSE
    ELSE IF conf.newSpread = NEW_CARDS_FIRST THEN TRUE
    ELSE IF s.newCardModulus # 0
         THEN (s.reps + 1) % s.newCardModulus = 0
    ELSE FALSE

\* _timeForNewCard (None counts as False)
TimeForNewCard(s) ==
    IF s.newCount = 0 THEN FALSE
    ELSE IF conf.newSpread = NEW_CARDS_LAST THEN FALSE
    ELSE IF conf.newSpread = NEW_CARDS_FIRST THEN TRUE
    ELSE IF s.newCardModulus # 0
         THEN s.reps # 0 /\ s.reps % s.newCardModulus = 0
    ELSE FALSE

\* _fillLrn, given the rows of its query
FillLrnWith(s, q) == [s |-> [s EXCEPT !.lrnQueue = q], r |-> q # <<>>]

\* _fillLrn
FillLrn(s) ==
    IF s.lrnCount = 0 THEN [s |-> s, r |-> FALSE]
    ELSE IF s.lrnQueue # <<>> THEN [s |-> s, r |-> TRUE]
    ELSE FillLrnWith(s, Take(SortPairs(LrnRows(now + conf.collapseTime)),
                             reportLimit))

\* _getLrnCard, given what _fillLrn returned and the cutoff (r = 0: None;
\* due: the due of the entry popped)
PopLrn(f, cutoff) ==
    IF f.r /\ f.s.lrnQueue[1][1] < cutoff
    THEN [s |-> [f.s EXCEPT !.lrnQueue = Tail(@), !.lrnCount = @ - 1],
          r |-> f.s.lrnQueue[1][2], due |-> f.s.lrnQueue[1][1]]
    ELSE [s |-> f.s, r |-> 0, due |-> 0]

\* variant: the collapse window is added whatever the flag
GetLrnCardCollapsed(s, collapse) ==
    PopLrn(FillLrn(MaybeResetLrn(s, collapse /\ s.lrnCount = 0)),
           now + conf.collapseTime)

\* _getLrnCard
GetLrnCard(s, collapse) ==
    PopLrn(FillLrn(MaybeResetLrn(s, collapse /\ s.lrnCount = 0)),
           IF collapse THEN now + conf.collapseTime ELSE now)

\* the while loop of _fillLrnDay over self._lrnDids
RECURSIVE FillLrnDayLoop(_)
FillLrnDayWith(s, q) ==
    IF q # <<>>
    THEN [s |-> [s EXCEPT !.lrnDayQueue = Shuffle(s.today, q),
                          !.lrnDids = IF Len(q) < queueLimit THEN Tail(@) ELSE @],
          r |-> TRUE]
    ELSE FillLrnDayLoop([s EXCEPT !.lrnDids = Tail(@)])

\* the while loop of _fillLrnDay over self._lrnDids; "dayEmpty" marks the
\* return after the loop ("shouldn't reach here")
FillLrnDayLoop(s) ==
    IF s.lrnDids = <<>> THEN [s |-> Log(s, "dayEmpty"), r |-> FALSE]
    ELSE FillLrnDayWith(s, Take(SortIds(LrnDayInDeck(Head(s.lrnDids), s.today)),
                                queueLimit))

\* _fillLrnDay
FillLrnDay(s) ==
    IF s.lrnCount = 0 THEN [s |-> s, r |-> FALSE]
    ELSE IF s.lrnDayQueue # <<>> THEN [s |-> s, r |-> TRUE]
    ELSE FillLrnDayLoop(s)

\* variant: the day learning card handed out is not counted
PopLrnDayUncounted(f) ==
    IF f.r
    THEN [s |-> [f.s EXCEPT !.lrnDayQueue = SubSeq(@, 1, Len(@) - 1)],
          r |-> f.s.lrnDayQueue[Len(f.s.lrnDayQueue)], due |-> 0]
    ELSE [s |-> f.s, r |-> 0, due |-> 0]

\* _getLrnDayCard, given what _fillLrnDay returned (r = 0: None)
PopLrnDay(f) ==
    IF f.r
    THEN [s |-> [f.s EXCEPT !.lrnCount = @ - 1,
                            !.lrnDayQueue = SubSeq(@, 1, Len(@) - 1)],
          r |-> f.s.lrnDayQueue[Len(f.s.lrnDayQueue)], due |-> 0]
    ELSE [s |-> f.s, r |-> 0, due |-> 0]

\* _getLrnDayCard
GetLrnDayCard(s) == PopLrnDay(FillLrnDay(s))

RECURSIVE FillRev(_, _, _)
\* variant: the query is bounded by queueLimit alone
FillRevWithAll(s, recursing, ord, lim) ==
    IF lim # 0 /\ ord # <<>>
    THEN [s |-> [s EXCEPT !.revQueue = Reverse(Take(ord, queueLimit))],
          r |-> TRUE]
    ELSE IF recursing THEN [s |-> Log(s, "bugRev"), r |-> FALSE]
    ELSE FillRev(ResetRev(ResetCounts(Log(s, "healRev"))), TRUE, ord)

\* _fillRev, given its limit; ord is the order the store's
\* "order by due, random()" yields
FillRevWith(s, recursing, ord, lim) ==
    IF lim # 0 /\ ord # <<>>
    THEN [s |-> [s EXCEPT !.revQueue = Reverse(Take(ord, lim))], r |-> TRUE]
    ELSE IF recursing THEN [s |-> Log(s, "bugRev"), r |-> FALSE]
    ELSE FillRev(ResetRev(ResetCounts(Log(s, "healRev"))), TRUE, ord)

\* _fillRev
FillRev(s, recursing, ord) ==
    IF s.revQueue # <<>> THEN [s |-> s, r |-> TRUE]
    ELSE IF s.revCount = 0 THEN [s |-> s, r |-> FALSE]
    ELSE FillRevWith(s, recursing, ord, Min(queueLimit, CurrentRevLimit))

\* variant: the card handed out is left in the review buffer
PopRevKeep(f) ==
    IF f.r
    THEN [s |-> [f.s EXCEPT !.revCount = @ - 1],
          r |-> f.s.revQueue[Len(f.s.revQueue)], due |-> 0]
    ELSE [s |-> f.s, r |-> 0, due |-> 0]

\* _getRevCard, given what _fillRev returned (r = 0: None)
PopRev(f) ==
    IF f.r
    THEN [s |-> [f.s EXCEPT !.revCount = @ - 1,
                            !.revQueue = SubSeq(@, 1, Len(@) - 1)],
          r |-> f.s.revQueue[Len(f.s.revQueue)], due |-> 0]
    ELSE [s |-> f.s, r |-> 0, due |-> 0]

\* _getRevCard
GetRevCard(s, ord) == PopRev(FillRev(Log(s, "fillRev"), FALSE, ord))

\* what _getCard returns: the fields afterwards, the card r (0: None), the
\* step src that yielded it (0: none), the steps tried in order, and the due
\* of a learning entry popped
Yield(a, k, t) ==
    [s |-> a.s, r |-> a.r, src |-> IF a.r # 0 THEN k ELSE 0, tried |-> t,
     due |-> a.due]

\* _getCard, its steps from the last to the first; a is what the step's
\* filler returned, t the steps tried so far
\* variant: the last step offers only learning cards that are due
Step7Due(s, t) == Yield(GetLrnCard(s, FALSE), 7, t \o <<7>>)

\* collapse or finish
Step7(s, t) == Yield(GetLrnCard(s, TRUE), 7, t \o <<7>>)

\* new cards left?
Step6After(a, t) == IF a.r # 0 THEN Yield(a, 6, t) ELSE Step7(a.s, t)
Step6(s, t) == Step6After(GetNewCard(s), t \o <<6>>)

\* day learning card due?
Step5After(a, t) == IF a.r # 0 THEN Yield(a, 5, t) ELSE Step6(a.s, t)
Step5(s, t) ==
    IF ~conf.dayLearnFirst THEN Step5After(GetLrnDayCard(s), t \o <<5>>)
    ELSE Step6(s, t)

\* card due for review?
Step4After(a, t) == IF a.r # 0 THEN Yield(a, 4, t) ELSE Step5(a.s, t)
Step4(s, t, ord) == Step4After(GetRevCard(s, ord), t \o <<4>>)

\* day learning first and card due?
Step3After(a, t, ord) == IF a.r # 0 THEN Yield(a, 3, t) ELSE Step4(a.s, t, ord)

\* variant: day learning cards are tried before reviews whatever the flag
Step3Always(s, t, ord) == Step3After(GetLrnDayCard(s), t \o <<3>>, ord)

Step3(s, t, ord) ==
    IF conf.dayLearnFirst THEN Step3After(GetLrnDayCard(s), t \o <<3>>, ord)
    ELSE Step4(s, t, ord)

\* new first, or time for one?
Step2After(a, t, ord) == IF a.r # 0 THEN Yield(a, 2, t) ELSE Step3(a.s, t, ord)
Step2(s, t, ord) ==
    IF TimeForNewCard(s) THEN Step2After(GetNewCard(s), t \o <<2>>, ord)
    ELSE Step3(s, t, ord)

\* learning card due?
Step1After(a, t, ord) == IF a.r # 0 THEN Yield(a, 1, t) ELSE Step2(a.s, t, ord)

\* _getCard
GetCardSteps(s, ord) == Step1After(GetLrnCard(s, FALSE), <<1>>, ord)

\* variant: the day is taken to roll over at the cutoff itself
CheckDayAtCutoff(s) == IF now >= s.dayCutoff THEN ResetAll(s) ELSE s

\* _checkDay
CheckDay(s) == IF now > s.dayCutoff THEN ResetAll(s) ELSE s

\* getCard: the reset when the queues have not been built
EnsureQueues(s) == IF ~s.haveQueues THEN ResetAll(s) ELSE s

\* getCard, up to the call of _getCard
BeforeGetCard(s) == EnsureQueues(CheckDay(StartCall(s)))

\* getCard, after _getCard returned g
AfterGetCard(g) ==
    IF g.r # 0
    THEN [g.s EXCEPT !.reps = @ + 1, !.handed = @ \cup {g.r},
                     !.requeued = @ \ {g.r}]
    ELSE g.s

----------------------------------------------------------------------------
(* Answering *)

\* queue_obj.remove(cid) for each cid of a set, a missing id being ignored
RECURSIVE RemoveEach(_, _)
RemoveEach(q, S) ==
    IF S = {} THEN q
    ELSE LET x == CHOOSE y \in S : TRUE
         IN  RemoveEach(Remove(q, x), S \ {x})

\* the rows of the query of _burySiblings
Siblings(c, today) ==
    {x \in CardIds : /\ cards[x].nid = cards[c].nid
                     /\ x # c
                     /\ \/ cards[x].queue = QUEUE_TYPE_NEW
                        \/ cards[x].queue = QUEUE_TYPE_REV /\ cards[x].due <= today}

\* variant: siblings leave the buffers only when they are to be buried
BurySiblingsIfBury(s, c) ==
    LET sibs == Siblings(c, s.today)
        home == decks[cards[c].did]
        revs == {x \in sibs : cards[x].queue = QUEUE_TYPE_REV /\ home.buryRev}
        news == {x \in sibs : cards[x].queue = QUEUE_TYPE_NEW /\ home.buryNew}
    IN  [s |-> [s EXCEPT !.revQueue = RemoveEach(@, revs),
                         !.newQueue = RemoveEach(@, news)],
         r |-> revs \cup news]

\* _burySiblings: r is toBury
BurySiblings(s, c) ==
    LET sibs == Siblings(c, s.today)
        revs == {x \in sibs : cards[x].queue = QUEUE_TYPE_REV}
        news == sibs \ revs
        home == decks[cards[c].did]
    IN  [s |-> [s EXCEPT !.revQueue = RemoveEach(@, revs),
                         !.newQueue = RemoveEach(@, news)],
         r |-> {x \in revs : home.buryRev} \cup {x \in news : home.buryNew}]

\* bury_cards(ids, manual=False): the store after the backend buried them
BuryCards(cs, ids) ==
    [x \in DOMAIN cs |->
        IF x \in ids THEN [cs[x] EXCEPT !.queue = QUEUE_TYPE_SIBLING_BURIED]
        ELSE cs[x]]

\* the decision engine: the states a card may be given for a rating
\* (get_next_card_states, state_is_leech), by the card's queue
NextStates(c, ease, today) ==
    LET q    == cards[c].queue
        st(k, d, l) == [queue |-> k, due |-> d, leech |-> l]
        soon == now + StepSecs
        edge == now + conf.collapseTime
        late == edge + StepSecs
    IN  IF q = QUEUE_TYPE_PREVIEW
        THEN IF ease = 1 THEN {st(QUEUE_TYPE_PREVIEW, soon, FALSE)}
             ELSE {st(QUEUE_TYPE_REV, today + 1, FALSE)}
        ELSE IF q = QUEUE_TYPE_REV
        THEN IF ease = 1
             THEN {st(QUEUE_TYPE_LRN, soon, FALSE), st(QUEUE_TYPE_LRN, soon, TRUE),
                   st(QUEUE_TYPE_SUSPENDED, cards[c].due, TRUE)}
             ELSE {st(QUEUE_TYPE_REV, today + 1, FALSE)}
        ELSE IF ease = 1 THEN {st(QUEUE_TYPE_LRN, soon, FALSE)}
        ELSE IF ease = 2
        THEN {st(QUEUE_TYPE_LRN, edge, FALSE), st(QUEUE_TYPE_LRN, late, FALSE)}
        ELSE IF ease = 3 THEN {st(QUEUE_TYPE_DAY_LEARN_RELEARN, today + 1, FALSE)}
        ELSE {st(QUEUE_TYPE_REV, today + 1, FALSE)}

\* variant: the new state never reaches the store
ApplyAnswerLost(cs, c, st) == cs

\* answer_card: the store after the backend applied the new state
ApplyAnswer(cs, c, st) ==
    [cs EXCEPT ![c].queue = st.queue, ![c].due = st.due]

\* answer_card: today's studied counts of the card's deck and its ancestors
CountAnswer(ds, c) ==
    LET up == {cards[c].did} \cup Range(Parents(cards[c].did))
        q  == cards[c].queue
    IN  [d \in DOMAIN ds |->
            IF d \notin up THEN ds[d]
            ELSE IF q = QUEUE_TYPE_NEW THEN [ds[d] EXCEPT !.newToday = @ + 1]
            ELSE IF q = QUEUE_TYPE_REV THEN [ds[d] EXCEPT !.revToday = @ + 1]
            ELSE ds[d]]

\* variant: a card due exactly at the collapse horizon is re-queued too
MaybeRequeueCardAtHorizon(s, c, q, due) ==
    IF q = QUEUE_TYPE_PREVIEW THEN [s EXCEPT !.lrnCount = @ + 1]
    ELSE IF q # QUEUE_TYPE_LRN THEN s
    ELSE IF due > now + conf.collapseTime THEN s
    ELSE [s EXCEPT !.lrnCount = @ + 1,
                   !.lrnQueue = InsertPair(@, <<due, c>>),
                   !.requeued = @ \cup {c}]

\* _maybe_requeue_card, for the card c as reloaded: its queue q and due
MaybeRequeueCard(s, c, q, due) ==
    IF q = QUEUE_TYPE_PREVIEW THEN [s EXCEPT !.lrnCount = @ + 1]
    ELSE IF q # QUEUE_TYPE_LRN THEN s
    ELSE IF due >= now + conf.collapseTime THEN s
    ELSE LET nudged ==
                 IF s.lrnQueue # <<>> /\ s.revCount = 0 /\ s.newCount = 0
                 THEN Max(due, s.lrnQueue[1][1] + 1)
                 ELSE due
         IN  [s EXCEPT !.lrnCount = @ + 1,
                       !.lrnQueue = InsertPair(@, <<nudged, c>>),
                       !.requeued = @ \cup {c}]

\* variant: a leech is re-queued like any other card
AnswerAfterBuryRequeue(b, c, st) ==
    [s |-> MaybeRequeueCard(b.s, c, st.queue, st.due), r |-> b.r]

\* answerCard after _burySiblings returned b
AnswerAfterBury(b, c, st) ==
    [s |-> IF st.leech THEN b.s
           ELSE MaybeRequeueCard(b.s, c, st.queue, st.due),
     r |-> b.r]

\* answerCard after its assertions: r is toBury
AnswerSteps(s, c, st) ==
    AnswerAfterBury(BurySiblings(s, c), c, st)

\* the assertions of answerCard on its arguments
AnswerChecks(c, ease) == ease \in 1..4 /\ cards[c].queue \in 0..4

\* the states the decision engine may give the card for the call; it is not
\* asked when the assertions fail
Offered(c, ease, today) ==
    IF AnswerChecks(c, ease) THEN NextStates(c, ease, today)
    ELSE {[queue |-> cards[c].queue, due |-> cards[c].due, leech |-> FALSE]}

\* answerCard has run its steps, which returned a: the fields, the store
\* and the decks afterwards
AnswerDone(a, c, st) ==
    [s |-> a.s, cards |-> ApplyAnswer(BuryCards(cards, a.r), c, st),
     decks |-> CountAnswer(decks, c), failed |-> FALSE]

\* variant: answerCard fails after it buried the siblings, which returned b
AnswerFailsAfterBury(b) ==
    [s |-> b.s, cards |-> BuryCards(cards, b.r), decks |-> decks,
     failed |-> TRUE]

\* variant: the arguments are checked after the siblings were buried
AnswerCallLateChecks(s, c, ease, st) ==
    IF AnswerChecks(c, ease) THEN AnswerDone(AnswerSteps(StartCall(s), c, st), c, st)
    ELSE AnswerFailsAfterBury(BurySiblings(StartCall(s), c))

\* answerCard(card, ease): failed when an assertion raised, which leaves
\* everything as it was
AnswerCall(s, c, ease, st) ==
    IF AnswerChecks(c, ease) THEN AnswerDone(AnswerSteps(StartCall(s), c, st), c, st)
    ELSE [s |-> s, cards |-> cards, decks |-> decks, failed |-> TRUE]

----------------------------------------------------------------------------
(* Initial states *)

\* the clock at construction: one tick before the day's cutoff
StartNow == DaySecs - TickSecs

\* the Scheduler after __init__; the counts and buffers are created by the
\* first reset and hold placeholders until then
NewScheduler ==
    [reps |-> 0, today |-> DaysElapsed, dayCutoff |-> NextDayAt,
     haveQueues |-> FALSE, lrnCutoff |-> 0,
     newCount |-> 0, revCount |-> 0, lrnCount |-> 0,
     newDids |-> <<>>, newQueue |-> <<>>, newCardModulus |-> 0,
     lrnQueue |-> <<>>, lrnDayQueue |-> <<>>, lrnDids |-> <<>>,
     revQueue |-> <<>>, queried |-> {}, handed |-> {},
     requeued |-> {}, log |-> <<>>, scanAt |-> 0]

\* last: the call, the card it returned or was given, the step of _getCard
\* that yielded it, the steps tried, the due of a learning entry popped,
\* whether the card returned had been handed out before in this reset cycle
\* (seen) and not re-queued since (again), whether counts() was (0, 0, 0)
\* when getCard was called (idle), whether getCard was called past the day
\* cutoff with a buffer not empty (stale), the siblings answerCard found in
\* the new and review buffers, whether answerCard raised (failed), whether
\* the decision engine called the new state a leech, the deck
\* _deckNewLimit was called for with the value it returned, and the clock
\* when getCard was called (at)
NoCall ==
    [op |-> "init", card |-> 0, src |-> 0, tried |-> <<>>, due |-> 0,
     seen |-> FALSE, again |-> FALSE, idle |-> FALSE, stale |-> FALSE,
     dropped |-> {}, failed |-> FALSE, leech |-> FALSE, deck |-> 0,
     limit |-> 0, at |-> 0]

Deck(parent, dyn, newPerDay, newToday, revPerDay, revToday, bury) ==
    [parent |-> parent, dyn |-> dyn, newPerDay |-> newPerDay,
     newToday |-> newToday, revPerDay |-> revPerDay, revToday |-> revToday,
     buryNew |-> bury, buryRev |-> bury]

Card(did, nid, ord, queue, due) ==
    [did |-> did, nid |-> nid, ord |-> ord, queue |-> queue, due |-> due]

\* what a card of the store may be at the start
NewCard(did, nid, ord)  == Card(did, nid, ord, QUEUE_TYPE_NEW, nid)
RevCard(did, nid, ord)  == Card(did, nid, ord, QUEUE_TYPE_REV, 0)
LrnSoon(did, nid, ord)  == Card(did, nid, ord, QUEUE_TYPE_LRN, StartNow + StepSecs)
RevOverdue(did, nid, ord) == Card(did, nid, ord, QUEUE_TYPE_REV, -1)
DayLrn(did, nid, ord)   == Card(did, nid, ord, QUEUE_TYPE_DAY_LEARN_RELEARN, 0)
Preview(did, nid, ord)  == Card(did, nid, ord, QUEUE_TYPE_PREVIEW, StartNow - StepSecs)

\* the stores of the general specification: cards 1 and 2 are siblings in
\* the selected deck 1, card 3 lies in its child deck 2 (in the filtered
\* deck 3 when it is a preview card), card 4 in deck 2; the last store holds
\* two notes of one card each; the reviews are due today, or since
\* yesterday (card 4 of the third store)
Stores ==
    {<<NewCard(1, 1, 0), NewCard(1, 1, 1), LrnSoon(2, 2, 0), NewCard(2, 3, 0)>>,
     <<RevCard(1, 1, 0), RevCard(1, 1, 1), DayLrn(2, 2, 0), NewCard(2, 3, 0)>>,
     <<NewCard(1, 1, 0), RevCard(1, 1, 1), LrnSoon(2, 2, 0), RevOverdue(2, 3, 0)>>,
     <<NewCard(1, 1, 0), RevCard(1, 1, 1), Preview(3, 2, 0), NewCard(2, 3, 0)>>,
     <<NewCard(1, 1, 0), NewCard(1, 2, 0)>>}

\* daily limits and today's studied counts: nothing studied yet; the child
\* deck 2 has used up its 5 new cards; the selected deck allows 1 a day
LimitsFresh == [new1 |-> 10, newToday1 |-> 0, newToday2 |-> 0, rev1 |-> 10]
LimitsChildDone == [new1 |-> 10, newToday1 |-> 5, newToday2 |-> 5, rev1 |-> 10]
LimitsTight == [new1 |-> 1, newToday1 |-> 0, newToday2 |-> 0, rev1 |-> 1]

\* the deck tree: decks 2 and 3 (filtered) are children of deck 1
DeckTree(l, bury) ==
    <<Deck(0, FALSE, l.new1, l.newToday1, l.rev1, 0, bury),
      Deck(1, FALSE, 5, l.newToday2, 10, 0, bury),
      Deck(1, TRUE, 0, 0, 0, 0, bury)>>

Conf(curDeck, newSpread, dayLearnFirst, collapseTime) ==
    [curDeck |-> curDeck, newSpread |-> newSpread,
     dayLearnFirst |-> dayLearnFirst, collapseTime |-> collapseTime,
     drift |-> 0]

\* the configurations of the general specification
Profiles ==
    {[decks |-> DeckTree(LimitsFresh, TRUE),
      conf |-> Conf(1, NEW_CARDS_DISTRIBUTE, FALSE, DefaultCollapse)],
     [decks |-> DeckTree(LimitsChildDone, FALSE),
      conf |-> Conf(1, NEW_CARDS_DISTRIBUTE, TRUE, DefaultCollapse)],
     [decks |-> DeckTree(LimitsTight, FALSE),
      conf |-> Conf(1, NEW_CARDS_LAST, FALSE, DefaultCollapse)],
     [decks |-> DeckTree(LimitsChildDone, TRUE),
      conf |-> Conf(1, NEW_CARDS_FIRST, FALSE, DefaultCollapse)],
     [decks |-> DeckTree(LimitsTight, FALSE),
      conf |-> Conf(1, NEW_CARDS_FIRST, TRUE, DefaultCollapse)]}

InitWith(stores, profiles) ==
    /\ cards \in stores
    /\ \E p \in profiles : decks = p.decks /\ conf = p.conf
    /\ now = StartNow
    /\ ticks = 0
    /\ cur = 0
    /\ self = NewScheduler
    /\ last = NoCall

Init == InitWith(Stores, Profiles)

----------------------------------------------------------------------------
(* Actions *)

\* the application calls reset(); the card in hand is dropped
Reset ==
    /\ self' = ResetAll(StartCall(self))
    /\ cur' = 0
    /\ last' = [NoCall EXCEPT !.op = "reset"]
    /\ UNCHANGED <<cards, decks, conf, now, ticks>>

\* counts() is (0, 0, 0)
Idle(s) == s.haveQueues /\ s.newCount = 0 /\ s.lrnCount = 0 /\ s.revCount = 0

\* some buffer holds a card
Holding(s) ==
    s.newQueue # <<>> \/ s.lrnQueue # <<>> \/ s.lrnDayQueue # <<>> \/ s.revQueue # <<>>

\* what is observed of the fields s when getCard is called
PreCall(s) == [idle |-> Idle(s), stale |-> now > s.dayCutoff /\ Holding(s)]

\* getCard returns: g is what _getCard returned, pre what was observed at
\* the call
Deliver(g, pre) ==
    /\ self' = AfterGetCard(g)
    /\ cur' = g.r
    /\ last' = [op |-> "getCard", card |-> g.r, src |-> g.src,
                tried |-> g.tried, due |-> g.due,
                seen |-> g.r \in g.s.handed,
                again |-> g.r \in g.s.handed \ g.s.requeued,
                idle |-> pre.idle, stale |-> pre.stale,
                dropped |-> {}, failed |-> FALSE, leech |-> FALSE,
                deck |-> 0, limit |-> 0, at |-> now]

\* getCard from the fields b that _checkDay and the first reset left
GetCardFrom(b, pre) ==
    \E ord \in RevOrders(b.today) : Deliver(GetCardSteps(b, ord), pre)

\* the application calls getCard() once the card in hand has been answered
\* (or dropped by a reset), as long as fewer than n cards were handed out
GetCardUpTo(n) ==
    /\ cur = 0
    /\ self.reps < n
    /\ GetCardFrom(BeforeGetCard(self), PreCall(self))
    /\ UNCHANGED <<cards, decks, conf, now, ticks>>

GetCard == GetCardUpTo(MaxReps)

\* the other cards of c's note held in the new or the review buffer
InBuffers(s, c) ==
    {x \in Range(s.newQueue) \cup Range(s.revQueue) :
        x # c /\ cards[x].nid = cards[c].nid}

\* answerCard(c, ease) returns or raises: a is what the call left
AnswerReturns(a, c, leech) ==
    /\ self' = a.s
    /\ cards' = a.cards
    /\ decks' = a.decks
    /\ cur' = IF a.failed THEN cur ELSE 0
    /\ last' = [NoCall EXCEPT !.op = "answerCard", !.card = c,
                              !.dropped = IF a.failed THEN {} ELSE InBuffers(self, c),
                              !.failed = a.failed,
                              !.leech = ~a.failed /\ leech]
    /\ UNCHANGED <<conf, now, ticks>>

\* the application calls answerCard(c, ease)
AnswerOn(c, ease) ==
    \E st \in Offered(c, ease, self.today) :
        AnswerReturns(AnswerCall(self, c, ease, st), c, st.leech)

\* the application calls answerCard(card, ease) for the card in hand, with
\* one of the buttons in eases
AnswerWith(eases) ==
    /\ cur # 0
    /\ \E ease \in eases : AnswerOn(cur, ease)

AnswerCard == AnswerWith(1..4)

\* time passes
Tick ==
    /\ ticks < MaxTicks
    /\ now' = now + TickSecs
    /\ ticks' = ticks + 1
    /\ UNCHANGED <<self, cards, decks, conf, cur, last>>

Next == Reset \/ GetCard \/ AnswerCard \/ Tick

Spec == Init /\ [][Next]_vars

----------------------------------------------------------------------------
(* Properties of the general specification *)

\* the cards held by each of the four buffers
NewBuffer == Range(self.newQueue)
LrnBuffer == {e[2] : e \in Range(self.lrnQueue)}
LrnDayBuffer == Range(self.lrnDayQueue)
RevBuffer == Range(self.revQueue)
Buffers == <<NewBuffer, LrnBuffer, LrnDayBuffer, RevBuffer>>

\* the steps of _getCard in the order of the code, for a configuration
\* whose new-card timing test says timeForNew
StepOrder(timeForNew) ==
    <<1>> \o (IF timeForNew THEN <<2>> ELSE <<>>)
          \o (IF conf.dayLearnFirst THEN <<3>> ELSE <<>>)
          \o <<4>>
          \o (IF conf.dayLearnFirst THEN <<>> ELSE <<5>>)
          \o <<6, 7>>

\* the queue a card yielded by step k has in the store
StepQueues(k) ==
    IF k \in {1, 7} THEN {QUEUE_TYPE_LRN, QUEUE_TYPE_PREVIEW}
    ELSE IF k \in {2, 6} THEN {QUEUE_TYPE_NEW}
    ELSE IF k \in {3, 5} THEN {QUEUE_TYPE_DAY_LEARN_RELEARN}
    ELSE {QUEUE_TYPE_REV}

\* the call went through the steps of order and stopped at the first that
\* yielded a card
FirstYield(call, order) ==
    /\ Len(call.tried) <= Len(order)
    /\ call.tried = SubSeq(order, 1, Len(call.tried))
    /\ IF call.card # 0
       THEN /\ call.src = call.tried[Len(call.tried)]
            /\ cards[call.card].queue \in StepQueues(call.src)
       ELSE call.src = 0 /\ call.tried = order

\* C1: getCard tries the sources in the fixed order due learning, new (when
\* the timing test says so), day learning (when scheduled first), review,
\* day learning (otherwise), new, collapsed learning, and returns the card
\* of the first source that yields one; later sources are not tried
C1_Precedence ==
    [][GetCard =>
          FirstYield(last', StepOrder(2 \in Range(last'.tried)))
          /\ (last'.src # 1 =>
                 (2 \in Range(last'.tried) <=> TimeForNewCard(BeforeGetCard(self))))
      ]_vars

\* a pull in which new and review cards were tried in vain before a day
\* learning card was returned
C1_Witness ==
    /\ last.op = "getCard"
    /\ last.src = 5
    /\ last.tried = <<1, 2, 4, 5>>

\* C2 as stated: when the counts are (0, 0, 0), getCard returns no card
C2_AsStated == [][GetCard /\ Idle(self) => cur' = 0]_vars

\* C2: when the counts are (0, 0, 0), the new and review buffers are empty,
\* the day has not rolled over and the store holds, in the active decks, no
\* learning card due before now + collapseTime, no day learning card due
\* today and no preview card, getCard returns no card, however often it is
\* called
C2_IdleReturnsNone ==
    [][GetCard /\ Idle(self) /\ now <= self.dayCutoff
              /\ self.newQueue = <<>> /\ self.revQueue = <<>>
              /\ LrnCountQuery(now + conf.collapseTime, self.today) = 0
          => cur' = 0]_vars

\* getCard was called with all counts zero and nothing to learn within the
\* collapse window, after cards had been handed out, and returned no card
C2_Witness ==
    /\ last.op = "getCard"
    /\ last.idle
    /\ last.card = 0
    /\ self.reps > 0
    /\ ticks = 0
    /\ self.newQueue = <<>> /\ self.revQueue = <<>>
    /\ LrnCountQuery(now + conf.collapseTime, self.today) = 0

C4_AsStated ==
    /\ \A c \in self.handed \ self.requeued :
          \A i \in 1..4 : c \notin Buffers[i]
    /\ ~last.again

\* C4: a card handed out since the last reset is never again in the new,
\* day learning or review buffer, and is handed out again only as a learning
\* card by the two learning steps (which also re-fetch from the store cards
\* that answerCard did not put back)
C4_NoReappearance ==
    /\ \A c \in self.handed : c \notin NewBuffer \cup LrnDayBuffer \cup RevBuffer
    /\ last.seen => last.src \in {1, 7}

\* a card is handed out a second time in one reset cycle although
\* answerCard had not put it back
C4_Witness == last.op = "getCard" /\ last.again

\* C5: after answerCard no sibling of the answered card that was in the new
\* or the review buffer is still in it, whatever the deck's bury options
C5_SiblingsLeaveBuffers ==
    [][AnswerCard =>
          \A x \in InBuffers(self, cur) : x \notin NewBuffer' \cup RevBuffer'
      ]_vars

\* a card was answered while a sibling was in a buffer, in a deck that does
\* not bury siblings
C5_Witness ==
    /\ last.op = "answerCard"
    /\ last.dropped # {}
    /\ ~decks[cards[last.card].did].buryNew
    /\ ~decks[cards[last.card].did].buryRev

\* C8: a deck whose effective new limit is 0 is not asked for new cards by
\* the new filler, and no new card of such a deck is handed out, even when
\* newCount is not zero
C8_ExhaustedDeckSkipped ==
    last.op = "getCard" =>
        /\ \A d \in self.queried : DeckNewLimit(d) # 0
        /\ last.src \in {2, 6} => DeckNewLimit(cards[last.card].did) # 0

\* the new filler ran with newCount above zero and asked deck 1 but not
\* deck 2, which has new cards and an effective limit of 0
C8_Witness ==
    /\ last.op = "getCard"
    /\ 1 \in self.queried
    /\ 2 \notin self.queried
    /\ NewInDeck(2) # {}
    /\ DeckNewLimit(2) = 0
    /\ DeckNewLimit(1) # 0

\* C9: a learning card is handed out by the first step (collapse false)
\* only if its due is before now, and by the last step (collapse true) only
\* if its due is before now + collapseTime
C9_CollapseWindow ==
    last.op = "getCard" =>
        /\ last.src = 1 => last.due < now
        /\ last.src = 7 => last.due < now + conf.collapseTime

\* a learning card due StepSecs in the future was passed over by the first
\* step and handed out by the last, all other steps yielding nothing
C9_Witness ==
    /\ last.op = "getCard"
    /\ last.src = 7
    /\ last.due = now + StepSecs
    /\ Len(last.tried) >= 5

Unit(b) == IF b THEN 1 ELSE 0

\* the events the call that led to this state noted
Events == Range(self.log)

\* the call re-derived newCount and revCount (reset or a filler's self-heal),
\* or lrnCount (reset or a learning rescan)
DerivedNewRev == Events \cap {"reset", "healNew", "healRev"} # {}
DerivedLrn == Events \cap {"reset", "lrnScan", "lrnForced"} # {}

\* C11 as stated: a getCard that hands out a card lowers the count of the
\* card's kind by 1 and leaves the other two counts as they were before the
\* call
C11_AsStated ==
    [][GetCard /\ self.haveQueues /\ cur' # 0 =>
          /\ self'.newCount = self.newCount - Unit(last'.src \in {2, 6})
          /\ self'.lrnCount = self.lrnCount - Unit(last'.src \in {1, 3, 5, 7})
          /\ self'.revCount = self.revCount - Unit(last'.src = 4)
      ]_vars

\* C11: after a getCard that hands out a card, each count is its value
\* before the call, or the value the call re-derived from the store when it
\* re-derived that count (day rollover or first reset, learning rescan,
\* self-heal of the new or review filler), less 1 for the count of the
\* card's kind and less 0 for the other two
C11_CountedOnce ==
    [][GetCard /\ cur' # 0 =>
          /\ self'.newCount =
                 (IF DerivedNewRev' THEN TreeNewCount ELSE self.newCount)
                 - Unit(last'.src \in {2, 6})
          /\ self'.revCount =
                 (IF DerivedNewRev' THEN TreeRevCount(self'.today)
                  ELSE self.revCount)
                 - Unit(last'.src = 4)
          /\ self'.lrnCount =
                 (IF DerivedLrn'
                  THEN LrnCountQuery(now + conf.collapseTime, self'.today)
                  ELSE self.lrnCount)
                 - Unit(last'.src \in {1, 3, 5, 7})
      ]_vars

\* a day learning card was handed out by a pull that re-derived the new and
\* review counts on the way
C11_Witness ==
    /\ last.op = "getCard"
    /\ last.src \in {3, 5}
    /\ DerivedNewRev
    /\ "reset" \notin Events

\* C12: a getCard called past dayCutoff resets before it selects: the reset
\* is the first thing the call does, today and dayCutoff are those of the
\* new day, the three counts are re-derived from the store and the four
\* buffers are empty when the selection starts, so the card handed out was
\* fetched from the store by this call and is the only one handed out since
\* the reset
C12_RolloverResets ==
    [][GetCard /\ now > self.dayCutoff =>
          /\ BeforeGetCard(self).today = DaysElapsed
          /\ BeforeGetCard(self).dayCutoff = NextDayAt
          /\ BeforeGetCard(self).newCount = TreeNewCount
          /\ BeforeGetCard(self).revCount = TreeRevCount(DaysElapsed)
          /\ BeforeGetCard(self).lrnCount =
                 LrnCountQuery(now + conf.collapseTime, DaysElapsed)
          /\ ~Holding(BeforeGetCard(self))
          /\ self'.log[1] = "reset"
          /\ self'.today = DaysElapsed
          /\ self'.dayCutoff = NextDayAt
          /\ now <= self'.dayCutoff
          /\ self'.handed = {cur'} \ {0}
      ]_vars

\* getCard was called past the cutoff while a buffer held cards fetched the
\* day before, and handed out a card
C12_Witness ==
    /\ last.op = "getCard"
    /\ last.stale
    /\ last.card # 0
    /\ self.reps > 1

C16_LeechNotRequeued ==
    [][AnswerCard /\ last'.leech =>
          /\ self'.lrnCount = self.lrnCount
          /\ self'.lrnQueue = self.lrnQueue
      ]_vars

\* a card was answered into a leech state that keeps it in learning, due
\* within the collapse window
C16_Witness ==
    /\ last.op = "answerCard"
    /\ last.leech
    /\ cards[last.card].queue = QUEUE_TYPE_LRN
    /\ cards[last.card].due < now + conf.collapseTime

----------------------------------------------------------------------------
(* The interleaving run: getCard and answerCard alternate without a reset
   and without the clock moving, over RunNew new and RunRev due review
   cards of the selected deck, new cards being distributed *)

\* the store of the run: the new cards, then the reviews, the most overdue
\* last
RunStore ==
    [i \in 1..(RunNew + RunRev) |->
        IF i <= RunNew THEN NewCard(1, i, 0)
        ELSE Card(1, i, 0, QUEUE_TYPE_REV, RunNew - i)]

RunLimits ==
    [new1 |-> RunNew + RunRev, newToday1 |-> 0, newToday2 |-> 0,
     rev1 |-> RunNew + RunRev]

RunProfiles ==
    {[decks |-> DeckTree(RunLimits, FALSE),
      conf |-> Conf(1, NEW_CARDS_DISTRIBUTE, dlf, DefaultCollapse)] :
        dlf \in BOOLEAN}

\* the buttons pressed in the run: good and easy, which never leave a card
\* due again today
RunEases == {3, 4}

InitRun == InitWith({RunStore}, RunProfiles)

GetCardInRun == GetCardUpTo(RunNew + RunRev)

AnswerInRun == AnswerWith(RunEases)

NextRun == GetCardInRun \/ AnswerInRun

SpecRun == InitRun /\ [][NextRun]_vars

\* C6 as stated: with the modulus at 2, every 2nd pull (2, 4, 6, ...) is a
\* new card and every other pull a review
C6_AsStated ==
    last.op = "getCard" /\ last.card # 0 =>
        /\ self.newCardModulus = 2
        /\ self.reps % 2 = 0 => last.src \in {2, 6}
        /\ self.reps % 2 = 1 => last.src = 4

\* C6: with the modulus at 2, a pull is a new card when the number of cards
\* handed out before it is even and not zero, that is on pulls 3, 5, 7, ...,
\* and a review on pulls 1, 2, 4, 6, ..., until the RunRev reviews are used
\* up at pull 2 * (RunRev - 1); every later pull is a new card
C6_Interleave ==
    last.op = "getCard" /\ last.card # 0 =>
        /\ self.newCardModulus = 2
        /\ self.reps <= 2 * (RunRev - 1) =>
               IF self.reps >= 3 /\ self.reps % 2 = 1
               THEN last.src = 2 ELSE last.src = 4
        /\ self.reps > 2 * (RunRev - 1) => last.src \in {2, 6}

\* the pull after an odd number of cards, the reviews used up, is a new
\* card found by the step that follows reviews
C6_Witness ==
    /\ last.op = "getCard"
    /\ self.reps = 2 * RunRev
    /\ last.src = 6

----------------------------------------------------------------------------
(* The answering specification: getCard and answerCard without a reset and
   without the clock moving, answerCard being called with any rating from
   0 to 5, for the card in hand or for a card that is suspended or buried *)

\* the ratings the application may pass
AnswerEases == 0..5

\* the cards answerCard may be called for: the card in hand, and the cards
\* whose queue is outside 0..4
Answerable == {c \in CardIds : c = cur \/ cards[c].queue \notin 0..4}

AnswerAny == \E c \in Answerable : \E ease \in AnswerEases : AnswerOn(c, ease)

NextAnswer == GetCard \/ AnswerAny

SpecAnswer == Init /\ [][NextAnswer]_vars

\* C14: answerCard called with a rating outside 1..4, or for a card whose
\* queue is outside 0..4, raises and leaves the scheduler's counts and
\* buffers, the store (no sibling buried, no new state applied), the decks'
\* studied counts and the card in hand as they were
C14_RejectedUnchanged ==
    [][\A c \in CardIds : \A ease \in AnswerEases :
          AnswerOn(c, ease) /\ (ease \notin 1..4 \/ cards[c].queue \notin 0..4)
              => /\ last'.failed
                 /\ UNCHANGED <<self, cards, decks, cur>>
      ]_vars

\* answerCard raised for the card in hand while a sibling of it was in the
\* new or the review buffer
C14_Witness ==
    /\ last.op = "answerCard"
    /\ last.failed
    /\ cur = last.card
    /\ InBuffers(self, cur) # {}

----------------------------------------------------------------------------
(* The missing-deck specification: the general one without the clock, in
   which the selected deck may stop existing: col.conf["curDeck"] is left
   pointing at an id the deck tree does not hold *)

\* the selected deck is gone from the deck tree
DeckVanishes ==
    /\ conf.curDeck \in DeckIds
    /\ conf' = [conf EXCEPT !.curDeck = Len(decks) + 1]
    /\ UNCHANGED <<self, cards, decks, now, ticks, cur, last>>

NextMissing == Reset \/ GetCard \/ AnswerCard \/ DeckVanishes

SpecMissing == Init /\ [][NextMissing]_vars

\* C15: when the selected deck is not in the deck tree, reset() completes
\* and leaves newCount, lrnCount and revCount at zero
C15_MissingDeckZero ==
    [][Reset /\ conf.curDeck \notin DeckIds =>
          /\ self'.haveQueues
          /\ self'.newCount = 0
          /\ self'.lrnCount = 0
          /\ self'.revCount = 0
      ]_vars

\* reset() ran with the selected deck missing, in a session that had handed
\* out cards, over a store that holds new and learning cards
C15_Witness ==
    /\ last.op = "reset"
    /\ conf.curDeck \notin DeckIds
    /\ self.reps > 0
    /\ \E c \in CardIds : cards[c].queue = QUEUE_TYPE_NEW
    /\ \E c \in CardIds : cards[c].queue \in {QUEUE_TYPE_LRN, QUEUE_TYPE_PREVIEW}

----------------------------------------------------------------------------
(* The drift specification: the general one without the clock, over
   collections whose deck tree counts up to MaxDrift cards of each kind more
   than the store yields, so that a filler may find nothing although its
   count is positive even after the counts were re-derived *)

InitDrift ==
    InitWith(Stores, {[p EXCEPT !.conf.drift = k] :
                          p \in Profiles, k \in 0..MaxDrift})

NextDrift == Reset \/ GetCard \/ AnswerCard

SpecDrift == InitDrift /\ [][NextDrift]_vars

\* the events noted since the last time the event e was noted
Since(e) ==
    {self.log[i] : i \in {j \in DOMAIN self.log :
                              \A k \in j..Len(self.log) : self.log[k] # e}}

\* C17: a fill attempt of the new or of the review filler re-derives the
\* counts and the buffer at most once, right after its first pass; when the
\* retry finds nothing either it reports the fault and fails, so that the
\* attempt yields no card
C17_HealOnce ==
    /\ \A i \in DOMAIN self.log :
          /\ self.log[i] = "healNew" => i > 1 /\ self.log[i - 1] = "fillNew"
          /\ self.log[i] = "healRev" => i > 1 /\ self.log[i - 1] = "fillRev"
          /\ self.log[i] = "bugNew" => i > 1 /\ self.log[i - 1] = "healNew"
          /\ self.log[i] = "bugRev" => i > 1 /\ self.log[i - 1] = "healRev"
    /\ last.op = "getCard" /\ last.src \in {2, 6} => "bugNew" \notin Since("fillNew")
    /\ last.op = "getCard" /\ last.src = 4 => "bugRev" \notin Since("fillRev")

\* a pull in which both fillers re-derived and found nothing again
C17_Witness ==
    /\ last.op = "getCard"
    /\ "bugNew" \in Events
    /\ "bugRev" \in Events
    /\ self.newCount > 0
    /\ self.revCount > 0

\* the new and review counts as the call that led to this state derived
\* them: the counts now, and the card handed out since
CountsDerived ==
    [new |-> self.newCount + Unit(last.src \in {2, 6}),
     rev |-> self.revCount + Unit(last.src = 4)]

\* new cards are distributed and the counts c the call derived hold new
\* cards, but the modulus is not floor((new + rev) / new), raised to 2 when
\* there are reviews
ModulusOff(c) ==
    /\ conf.newSpread = NEW_CARDS_DISTRIBUTE
    /\ c.new > 0
    /\ self.newCardModulus #
           (IF c.rev > 0 /\ (c.new + c.rev) \div c.new < 2 THEN 2
            ELSE (c.new + c.rev) \div c.new)

\* C18 as stated: when new cards are distributed, the modulus is at least 2
\* whenever newCount and revCount are positive, and after every call that
\* derived the counts (reset or a filler's self-heal) with new cards left
\* it is floor((newCount + revCount) / newCount), raised to 2 when there are
\* reviews
C18_AsStated ==
    /\ conf.newSpread = NEW_CARDS_DISTRIBUTE /\ self.newCount > 0 /\ self.revCount > 0
           => self.newCardModulus >= 2
    /\ last.op \in {"getCard", "reset"} /\ DerivedNewRev => ~ModulusOff(CountsDerived)

\* C18: when new cards are distributed, the modulus is at least 2 whenever
\* newCount and revCount are positive, and after every call in which reset
\* or the new filler's self-heal derived the counts with new cards left it
\* is floor((newCount + revCount) / newCount), raised to 2 when there are
\* reviews (the review filler's self-heal leaves the modulus as it was)
C18_Modulus ==
    /\ conf.newSpread = NEW_CARDS_DISTRIBUTE /\ self.newCount > 0 /\ self.revCount > 0
           => self.newCardModulus >= 2
    /\ last.op \in {"getCard", "reset"} /\ Events \cap {"reset", "healNew"} # {}
           => ~ModulusOff(CountsDerived)

\* the new filler's self-heal derived new cards and reviews, and the modulus
\* follows them
C18_Witness ==
    /\ last.op = "getCard"
    /\ "healNew" \in Events
    /\ conf.newSpread = NEW_CARDS_DISTRIBUTE
    /\ CountsDerived.new > 0
    /\ CountsDerived.rev > 0
    /\ self.newCardModulus = (CountsDerived.new + CountsDerived.rev) \div CountsDerived.new

\* C19 as stated: in every call that is not or holds no reset, the new
\* filler's deck list only shrinks: what it is after the call is what was
\* left of it before
C19_AsStated ==
    [][ "reset" \notin Range(self'.log)
          => \E k \in 0..Len(self.newDids) :
                 self'.newDids = SubSeq(self.newDids, k + 1, Len(self.newDids))
      ]_vars

\* C19: in every call in which neither reset nor the new filler's self-heal
\* ran, the new filler's deck list only shrinks, and only by decks that
\* yield no new card (the self-heal restores the whole list)
C19_ShrinksUntilRederived ==
    [][ Range(self'.log) \cap {"reset", "healNew"} = {}
          => /\ \E k \in 0..Len(self.newDids) :
                    self'.newDids = SubSeq(self.newDids, k + 1, Len(self.newDids))
             /\ \A d \in Range(self.newDids) \ Range(self'.newDids) :
                    \/ Min(queueLimit, DeckNewLimit(d)) = 0
                    \/ NewQuery(d, Min(queueLimit, DeckNewLimit(d))) = <<>>
      ]_vars

\* a pull without reset or self-heal handed out a new card of a deck after
\* it had dropped an earlier deck of the list
C19_Witness ==
    /\ last.op = "getCard"
    /\ last.src \in {2, 6}
    /\ Events = {"fillNew"}
    /\ self.newDids # <<>>
    /\ Len(self.newDids) < Len(ActiveSeq)
    /\ cards[last.card].did = Head(self.newDids)

----------------------------------------------------------------------------
(* The clock specification: pulls and answers while the clock advances by
   StepSecs or TickSecs at a time, up to MaxSteps times, over the
   collections that hold learning cards, so that pulls come less than, exactly
   and more than LrnRescanSecs after the learning cutoff was last moved *)

MaxSteps == 4

InitClock ==
    InitWith({s \in Stores : \E i \in DOMAIN s :
                  s[i].queue \in {QUEUE_TYPE_LRN, QUEUE_TYPE_PREVIEW}},
             {p \in Profiles : p.conf.newSpread = NEW_CARDS_DISTRIBUTE})

\* the clock advances between two calls
Step ==
    /\ ticks < MaxSteps
    /\ \E d \in {StepSecs, TickSecs} : now' = now + d
    /\ ticks' = ticks + 1
    /\ UNCHANGED <<self, cards, decks, conf, cur, last>>

NextClock == GetCard \/ AnswerCard \/ Step

SpecClock == InitClock /\ [][NextClock]_vars

\* C20: a pull that re-derives the learning state unforced finds
\* now + collapseTime more than LrnRescanSecs past the learning cutoff, does
\* so once and more than LrnRescanSecs after the unforced re-derivation
\* before it; a forced one belongs to a collapse pull (or a reset); and a
\* pull that re-derives nothing leaves the cutoff as it is, changes lrnCount
\* only by the learning card it hands out and the learning buffers only by
\* popping from or filling an empty one
C20_RescanAfterMinute ==
    [][ ticks' = ticks /\ last'.op = "getCard"
          => /\ "lrnScan" \in Range(self'.log)
                  => /\ now + conf.collapseTime - self.lrnCutoff > LrnRescanSecs
                     /\ now - self.scanAt > LrnRescanSecs
                     /\ Cardinality({i \in DOMAIN self'.log : self'.log[i] = "lrnScan"}) = 1
                     /\ "reset" \notin Range(self'.log)
             /\ "lrnForced" \in Range(self'.log) => 7 \in Range(last'.tried)
             /\ Range(self'.log) \cap {"reset", "lrnScan", "lrnForced"} = {}
                  => /\ self'.lrnCutoff = self.lrnCutoff
                     /\ self'.lrnCount = self.lrnCount - Unit(last'.src \in {1, 3, 5, 7})
                     /\ self.lrnQueue # <<>>
                           => self'.lrnQueue \in {self.lrnQueue, Tail(self.lrnQueue)}
                     /\ self.lrnDayQueue # <<>>
                           => self'.lrnDayQueue \in
                                 {self.lrnDayQueue,
                                  SubSeq(self.lrnDayQueue, 1, Len(self.lrnDayQueue) - 1)}
      ]_vars

\* a pull re-derived the learning state unforced, on a later day than the
\* scheduler was made, and handed out a learning card
C20_Witness ==
    /\ last.op = "getCard"
    /\ "lrnScan" \in Events
    /\ self.scanAt = now
    /\ self.today > StartNow \div DaySecs
    /\ last.src \in {1, 7}

\* C21: after an answer that made no leech, a card left in the preview
\* queue adds 1 to lrnCount and leaves the learning buffers as they were; a
\* card left in the learning queue and due before now + collapseTime adds 1
\* to lrnCount and has exactly one entry in the learning buffer, whose other
\* entries are as they were; any other card leaves lrnCount and the learning
\* buffers as they were
C21_Requeue ==
    [][ cur # 0 /\ cur' = 0 /\ last'.op = "answerCard" /\ ~last'.leech
          => /\ self'.lrnDayQueue = self.lrnDayQueue
             /\ IF cards'[last'.card].queue = QUEUE_TYPE_PREVIEW
                THEN /\ self'.lrnCount = self.lrnCount + 1
                     /\ self'.lrnQueue = self.lrnQueue
                ELSE IF /\ cards'[last'.card].queue = QUEUE_TYPE_LRN
                        /\ cards'[last'.card].due < now + conf.collapseTime
                THEN /\ self'.lrnCount = self.lrnCount + 1
                     /\ Len(self'.lrnQueue) = Len(self.lrnQueue) + 1
                     /\ SelectSeq(self'.lrnQueue, LAMBDA e : e[2] # last'.card) = self.lrnQueue
                ELSE /\ self'.lrnCount = self.lrnCount
                     /\ self'.lrnQueue = self.lrnQueue
      ]_vars

\* an answer left the card in the learning queue, due exactly at the collapse
\* horizon, while other learning cards were counted
C21_Witness ==
    /\ last.op = "answerCard"
    /\ ~last.failed
    /\ ~last.leech
    /\ cards[last.card].queue = QUEUE_TYPE_LRN
    /\ cards[last.card].due = now + conf.collapseTime
    /\ self.lrnCount > 0

\* the last call was an answer that re-queued its learning card while the
\* learning buffer held another entry and no new or review card was counted
RequeuedBehind ==
    /\ last.op = "answerCard"
    /\ ~last.failed
    /\ last.card \in self.requeued
    /\ Len(self.lrnQueue) >= 2
    /\ self.newCount = 0
    /\ self.revCount = 0

\* C22: when an answered learning card was re-queued while the learning
\* buffer was not empty and newCount and revCount were 0, the next getCard
\* does not hand out that card
C22_AsStated ==
    [][ RequeuedBehind /\ last'.op = "getCard" => last'.card # last.card ]_vars

\* a learning card was re-queued behind the head of the learning buffer
C22_Witness ==
    /\ RequeuedBehind
    /\ self.lrnQueue[1][2] # last.card

\* C23 as stated: a pull in which the day learning filler tried every deck
\* in vain with lrnCount positive re-derived the learning counts and
\* buffers after that
C23_AsStated ==
    last.op = "getCard" /\ "dayEmpty" \in Events
        => Since("dayEmpty") \cap {"reset", "lrnScan", "lrnForced"} # {}

\* the day learning filler tried every deck in vain while learning cards
\* were counted, and the pull went on to hand out a learning card of the
\* collapse window
C23_Witness ==
    /\ last.op = "getCard"
    /\ "dayEmpty" \in Events
    /\ last.src = 7
    /\ self.lrnCount > 0

\* the last call was a getCard that returned None, and the clock has not
\* moved since
GotNone == last.op = "getCard" /\ last.card = 0 /\ last.at = now

\* C25: when getCard returned None, a getCard that follows at once returns
\* None too, and no card is left that a filler could hand out: no new card
\* of an active deck with room under its limit, no review that is due with
\* room under the selected deck's limit, no day learning card that is due,
\* no learning or preview card due within the collapse window
C25_NoneMeansDone ==
    /\ [](GotNone =>
            \A c \in CardIds :
               cards[c].did \in Active =>
                  /\ cards[c].queue = QUEUE_TYPE_NEW
                        => DeckNewLimit(cards[c].did) = 0
                  /\ cards[c].queue = QUEUE_TYPE_REV /\ cards[c].due <= self.today
                        => CurrentRevLimit = 0
                  /\ cards[c].queue = QUEUE_TYPE_DAY_LEARN_RELEARN
                        => cards[c].due > self.today
                  /\ cards[c].queue \in {QUEUE_TYPE_LRN, QUEUE_TYPE_PREVIEW}
                        => cards[c].due >= now + conf.collapseTime)
    /\ [][ GotNone /\ last'.op = "getCard" /\ ticks' = ticks => last'.card = 0 ]_vars

\* getCard returned None twice in a row although cards remain in the store
\* that are out of quota or not yet within the collapse window
C25_Witness ==
    /\ GotNone
    /\ self.reps > 0
    /\ \E c \in CardIds : cards[c].queue \in {QUEUE_TYPE_NEW, QUEUE_TYPE_LRN}

----------------------------------------------------------------------------
(* The limit specification: _deckNewLimit over deck tables drawn from a
   bounded set; deck 2 is a child of deck 1 and deck 3 a child of deck 2 *)

\* the limit-relevant fields of a deck; a filtered deck has no caps
LimitDecks ==
    {d \in [dyn : BOOLEAN, newPerDay : 0..MaxCap, newToday : 0..(MaxCap + 1)] :
        d.dyn => d.newPerDay = 0 /\ d.newToday = 0}

LimitTable(a, b, c) ==
    <<Deck(0, a.dyn, a.newPerDay, a.newToday, 0, 0, FALSE),
      Deck(1, b.dyn, b.newPerDay, b.newToday, 0, 0, FALSE),
      Deck(2, c.dyn, c.newPerDay, c.newToday, 0, 0, FALSE)>>

InitLimit ==
    /\ \E a, b, c \in LimitDecks : decks = LimitTable(a, b, c)
    /\ cards = <<>>
    /\ conf = Conf(1, NEW_CARDS_DISTRIBUTE, FALSE, DefaultCollapse)
    /\ now = StartNow
    /\ ticks = 0
    /\ cur = 0
    /\ self = NewScheduler
    /\ last = NoCall

\* _deckNewLimit(did) is called
DeckNewLimitCall ==
    /\ \E did \in DeckIds :
          last' = [NoCall EXCEPT !.op = "_deckNewLimit", !.deck = did,
                                 !.limit = DeckNewLimit(did)]
    /\ UNCHANGED <<self, cards, decks, conf, now, ticks, cur>>

NextLimit == DeckNewLimitCall

SpecLimit == InitLimit /\ [][NextLimit]_vars

\* the deck the call was for and its ancestors
LimitChain == {last.deck} \cup Range(Parents(last.deck))

\* C7: _deckNewLimit(D) is the least of the raw limits of D and its
\* ancestors, so it is 0 when an ancestor has used up its cap, whatever D's
\* own cap
C7_MinOverAncestors ==
    last.op = "_deckNewLimit" =>
        /\ \E g \in LimitChain : last.limit = DeckNewLimitSingle(g)
        /\ \A g \in LimitChain : last.limit <= DeckNewLimitSingle(g)
        /\ (\E g \in Range(Parents(last.deck)) :
                ~decks[g].dyn /\ decks[g].newToday >= decks[g].newPerDay)
               => last.limit = 0

\* the limit of a deck with room of its own is 0 because of an ancestor
C7_Witness ==
    /\ last.op = "_deckNewLimit"
    /\ last.limit = 0
    /\ DeckNewLimitSingle(last.deck) > 0

----------------------------------------------------------------------------
(* The review limit specification: _deckRevLimitSingle and one pull over
   review caps drawn from the same bounded set as the new caps of the limit
   specification; deck 2 is a child of deck 1 and deck 3 a child of deck 2,
   any of them is the selected deck, and every deck holds reviews that are
   due *)

InitRevLimit ==
    /\ \E a, b, c \in LimitDecks :
          decks = <<Deck(0, a.dyn, 0, 0, a.newPerDay, a.newToday, FALSE),
                    Deck(1, b.dyn, 0, 0, b.newPerDay, b.newToday, FALSE),
                    Deck(2, c.dyn, 0, 0, c.newPerDay, c.newToday, FALSE)>>
    /\ cards = <<RevCard(1, 1, 0), RevCard(2, 2, 0), RevCard(3, 3, 0)>>
    /\ \E d \in 1..3 : conf = Conf(d, NEW_CARDS_DISTRIBUTE, FALSE, DefaultCollapse)
    /\ now = StartNow
    /\ ticks = 0
    /\ cur = 0
    /\ self = NewScheduler
    /\ last = NoCall

\* _deckRevLimitSingle(d) is called with no parentLimit
DeckRevLimitCall ==
    /\ \E did \in DeckIds :
          last' = [NoCall EXCEPT !.op = "_deckRevLimitSingle", !.deck = did,
                                 !.limit = DeckRevLimitSingle(did, FALSE, 0)]
    /\ UNCHANGED <<self, cards, decks, conf, now, ticks, cur>>

SpecRevLimit == InitRevLimit /\ [][DeckRevLimitCall \/ GetCard]_vars

\* the least raw review limit among deck did and its ancestors; the raw
\* limit of a deck is what is left of its cap today, a filtered deck being
\* exempt
LeastRevLimit(did) ==
    LET raw(g) == IF decks[g].dyn THEN dynReportLimit
                  ELSE Max(0, decks[g].revPerDay - decks[g].revToday)
        chain  == {did} \cup Range(Parents(did))
    IN  CHOOSE l \in {raw(g) : g \in chain} : \A g \in chain : l <= raw(g)

\* C24: the review limit of a deck is the least of the raw review limits of
\* the deck and its ancestors, so it is 0 when an ancestor has used up its
\* cap, also for a filtered deck; and a refill of the review filler fetches
\* no more than the lesser of queueLimit and that limit of the selected deck
C24_AsStated ==
    /\ last.op = "_deckRevLimitSingle" =>
          /\ last.limit = LeastRevLimit(last.deck)
          /\ (\E g \in Range(Parents(last.deck)) :
                  ~decks[g].dyn /\ decks[g].revToday >= decks[g].revPerDay)
                 => last.limit = 0
    /\ last.op = "getCard" =>
          Len(self.revQueue) + Unit(last.src = 4)
              <= Min(queueLimit, LeastRevLimit(conf.curDeck))

\* the limit was asked for a filtered deck below a deck that has used up
\* its cap
C24_Witness ==
    /\ last.op = "_deckRevLimitSingle"
    /\ decks[last.deck].dyn
    /\ \E g \in Range(Parents(last.deck)) :
          ~decks[g].dyn /\ decks[g].revToday >= decks[g].revPerDay

(* The order specification: the selected deck 1 holds four new cards whose
   ids are not in (due, ord) order, card 3 being the sibling of the review
   card 4, and the child deck 2 holds a new card with the smallest due; or
   deck 1 holds one new card and deck 2 two with smaller dues *)

InitOrder ==
    /\ cards \in
          {<<Card(1, 3, 0, QUEUE_TYPE_NEW, 3), Card(1, 1, 1, QUEUE_TYPE_NEW, 1),
             Card(1, 2, 0, QUEUE_TYPE_NEW, 2), RevCard(1, 2, 1),
             Card(2, 4, 0, QUEUE_TYPE_NEW, 0), Card(1, 5, 0, QUEUE_TYPE_NEW, 0)>>,
           <<Card(2, 2, 0, QUEUE_TYPE_NEW, 2), Card(2, 1, 0, QUEUE_TYPE_NEW, 1),
             Card(1, 3, 0, QUEUE_TYPE_NEW, 3)>>}
    /\ \E bury \in BOOLEAN : decks = DeckTree(LimitsFresh, bury)
    /\ \E spread \in {NEW_CARDS_DISTRIBUTE, NEW_CARDS_LAST, NEW_CARDS_FIRST} :
          conf = Conf(1, spread, FALSE, DefaultCollapse)
    /\ now = StartNow
    /\ ticks = 0
    /\ cur = 0
    /\ self = NewScheduler
    /\ last = NoCall

SpecOrder == InitOrder /\ [][Next]_vars

\* card a comes before card b in "order by due, ord"
DueOrdBefore(a, b) ==
    \/ cards[a].due < cards[b].due
    \/ cards[a].due = cards[b].due /\ cards[a].ord < cards[b].ord

SpecLive ==
    /\ Init
    /\ [][ \/ GetCardUpTo(Len(cards) + 1)
           \/ AnswerWith(RunEases)
           \/ Step /\ now' < NextDayAt ]_vars
    /\ WF_vars(AnswerWith(RunEases))
    /\ \/ []<>(cur # 0)
       \/ []<><<GetCardUpTo(Len(cards) + 1)>>_vars

\* C27: when nothing but getCard and answerCard touches the store, the day
\* does not roll over and every card handed out is answered so that it is
\* not due again today, no more cards are handed out than the store holds
\* and a getCard that returns None is reached
C27_SessionEnds ==
    /\ [](self.reps <= Len(cards))
    /\ <>(last.op = "getCard" /\ last.card = 0)

\* getCard returned None after two cards or more were handed out and
\* answered, every card of the store being buried or due after today
C27_Witness ==
    /\ last.op = "getCard" /\ last.card = 0
    /\ self.reps >= 2
    /\ \A c \in CardIds :
          \/ cards[c].queue \in {QUEUE_TYPE_REV, QUEUE_TYPE_DAY_LEARN_RELEARN}
                /\ cards[c].due > self.today
          \/ cards[c].queue = QUEUE_TYPE_SIBLING_BURIED

====
